---- MODULE Spec2Model ----
(***************************************************************************)
(* Model of the Cachelab key-value store: HashFunction, BucketManager,     *)
(* StringUtils, DiskPersistence and HashMapStore.                          *)
(*                                                                         *)
(* A string is the sequence of its UTF-16 code units (what charCodeAt and  *)
(* str[i] see).  A bucket array is a function on 0..n-1, so an index of    *)
(* the model is the index of the code.                                     *)
(***************************************************************************)
EXTENDS Integers, Sequences, FiniteSets, TLC

VARIABLES store, file, last, ref, failures, store2

vars == <<store, file, last, ref, failures, store2>>

----------------------------------------------------------------------------
(* Characters and a few strings *)

Colon == 58
Backslash == 92
LetterN == 110
Newline == 10
Underscore == 95

\* "__proto__": the one property name an assignment to a plain object does
\* not store (Object.prototype's accessor swallows it).
ProtoKey == <<95, 95, 112, 114, 111, 116, 111, 95, 95>>

\* What obj["__proto__"] reads on a plain object: Object.prototype itself,
\* an object and no string.  No string is equal to it.
ObjectPrototype == <<-1>>

\* JavaScript's undefined (a missing property, a key that is not found).
Undefined == <<-2>>

\* The file does not exist.
NoFile == <<-3>>

\* str.length as the loops of StringUtils read it: undefined for a value
\* that is not a string, and i < undefined is false.
StrLength(str) == IF str = ObjectPrototype \/ str = Undefined THEN 0 ELSE Len(str)

----------------------------------------------------------------------------
(* HashFunction *)

Two16 == 65536
Two15 == 32768
MinInt32 == (-2147483647) - 1

\* The 32-bit two's-complement integer whose unsigned limbs are hi and lo
\* (any integers: they are reduced modulo 2^16 with carry first).
ToInt32(hi, lo) ==
  LET l == lo % Two16
      h == (hi + (lo \div Two16)) % Two16
  IN  IF h >= Two15 THEN (h - Two16) * Two16 + l ELSE h * Two16 + l

HiLimb(x) == (x \div Two16) % Two16
LoLimb(x) == x % Two16

\* Mutant: the shift is by 4.
Shl5_by4(x) == ToInt32(HiLimb(x) * 16, LoLimb(x) * 16)

\* hash << 5
Shl5(x) == ToInt32(HiLimb(x) * 32, LoLimb(x) * 32)

\* Mutant: the round adds the hash to the shifted hash (times 33).
HashStep_plus(h, char) ==
  LET s == Shl5(h)
  IN  ToInt32(HiLimb(s) + HiLimb(h), LoLimb(s) + LoLimb(h) + char)

\* One round of the loop: hash = ((hash << 5) - hash) + char; hash = hash & hash
HashStep(h, char) ==
  LET s == Shl5(h)
  IN  ToInt32(HiLimb(s) - HiLimb(h), LoLimb(s) - LoLimb(h) + char)

RECURSIVE HashAcc(_, _, _)
HashAcc(key, i, h) ==
  IF i > Len(key) THEN h
  ELSE CHOOSE r \in {HashAcc(key, i + 1, h1) : h1 \in {HashStep(h, key[i])}} :
         TRUE

\* Mutant: the remainder is taken without Math.abs (it has the sign of the
\* accumulator).
AbsMod_noabs(h, n) ==
  IF h = MinInt32 THEN 0 - (((Two15 % n) * (Two16 % n)) % n)
  ELSE IF h < 0 THEN 0 - ((0 - h) % n)
  ELSE h % n

\* Math.abs(hash) % bucketCount
AbsMod(h, n) ==
  IF h = MinInt32 THEN ((Two15 % n) * (Two16 % n)) % n
  ELSE IF h < 0 THEN (0 - h) % n
  ELSE h % n

NewHashFunction(n) == [bucketCount |-> n]

\* Mutant: the loop starts at the second character.
hash_skipfirst(hf, key) == AbsMod(HashAcc(key, 2, 0), hf.bucketCount)

hash(hf, key) == AbsMod(HashAcc(key, 1, 0), hf.bucketCount)

----------------------------------------------------------------------------
(* BucketManager *)

\* The constructor and initializeBuckets: bucketCount empty arrays.
NewBucketManager(n) ==
  [bucketCount |-> n, buckets |-> [i \in 0 .. n - 1 |-> <<>>]]

\* buckets.length
NumBuckets(bm) == Cardinality(DOMAIN bm.buckets)

\* Position (from 1) of the first entry of bucket whose key is key, 0 if none:
\* the scan shared by setInBucket, getFromBucket, deleteFromBucket, hasInBucket.
RECURSIVE FindFrom(_, _, _)
FindFrom(bucket, key, i) ==
  IF i > Len(bucket) THEN 0
  ELSE IF bucket[i].key = key THEN i
  ELSE FindFrom(bucket, key, i + 1)

FindInBucket(bucket, key) == FindFrom(bucket, key, 1)

\* Mutant: an existing entry is taken out and the new one goes to the end.
setInBucket_movetoend(bm, bucketIndex, key, value) ==
  LET bucket == bm.buckets[bucketIndex]
  IN  [bm EXCEPT !.buckets[bucketIndex] =
         Append(SelectSeq(bucket, LAMBDA e : e.key # key),
                [key |-> key, value |-> value])]

setInBucket(bm, bucketIndex, key, value) ==
  LET bucket == bm.buckets[bucketIndex]
      i == FindInBucket(bucket, key)
  IN  IF i > 0
      THEN [bm EXCEPT !.buckets[bucketIndex][i].value = value]
      ELSE [bm EXCEPT !.buckets[bucketIndex] =
                        Append(bucket, [key |-> key, value |-> value])]

getFromBucket(bm, bucketIndex, key) ==
  LET bucket == bm.buckets[bucketIndex]
      i == FindInBucket(bucket, key)
  IN  IF i > 0 THEN bucket[i].value ELSE Undefined

hasInBucket(bm, bucketIndex, key) ==
  FindInBucket(bm.buckets[bucketIndex], key) > 0

\* Mutant: the last entry is moved into the freed slot.
ShiftOut_swaplast(bucket, i) ==
  [j \in 1 .. Len(bucket) - 1 |->
     IF j = i THEN bucket[Len(bucket)] ELSE bucket[j]]

\* The shift loop and bucket.length = bucket.length - 1.
ShiftOut(bucket, i) ==
  [j \in 1 .. Len(bucket) - 1 |-> IF j < i THEN bucket[j] ELSE bucket[j + 1]]

\* Mutant: the shift loop without the truncation that follows it.
deleteFromBucket_notrunc(bm, bucketIndex, key) ==
  LET bucket == bm.buckets[bucketIndex]
      i == FindInBucket(bucket, key)
  IN  IF i > 0
      THEN [ret |-> TRUE,
            bm |-> [bm EXCEPT !.buckets[bucketIndex] =
                      ShiftOut(bucket, i) \o <<bucket[Len(bucket)]>>]]
      ELSE [ret |-> FALSE, bm |-> bm]

\* deleteFromBucket as the pair of its return value and the manager it leaves.
deleteFromBucket(bm, bucketIndex, key) ==
  LET bucket == bm.buckets[bucketIndex]
      i == FindInBucket(bucket, key)
  IN  IF i > 0
      THEN [ret |-> TRUE,
            bm |-> [bm EXCEPT !.buckets[bucketIndex] = ShiftOut(bucket, i)]]
      ELSE [ret |-> FALSE, bm |-> bm]

\* All entries, bucket 0 first, each bucket in array order: the double loop
\* of getAllKeys, getAll, getBucketStructure and DiskPersistence.save.
\* The buckets lo .. hi in index order, one after the other.
RECURSIVE FlattenRange(_, _, _)
FlattenRange(buckets, lo, hi) ==
  IF lo > hi THEN <<>>
  ELSE IF lo = hi THEN buckets[lo]
  ELSE LET mid == (lo + hi) \div 2
       IN  FlattenRange(buckets, lo, mid) \o FlattenRange(buckets, mid + 1, hi)

Flatten(buckets) == FlattenRange(buckets, 0, Cardinality(DOMAIN buckets) - 1)

BMgetAllKeys(bm) ==
  LET es == Flatten(bm.buckets) IN [i \in 1 .. Len(es) |-> es[i].key]

\* result[key] = value on a plain object {} creates or overwrites an own
\* property, except for "__proto__", which creates none.
\* obj[key] on such an object.
ObjRead(obj, key) ==
  IF key = ProtoKey THEN ObjectPrototype
  ELSE IF key \in DOMAIN obj THEN obj[key]
  ELSE Undefined

\* The object after the assignments result[es[i].key] = es[i].value for
\* i = 1 .. Len(es) in turn: each assigned key holds the value of its last
\* assignment.
ObjOf(es) ==
  LET assigned == {es[i].key : i \in 1 .. Len(es)} \ {ProtoKey}
      lastOf(k) == CHOOSE i \in 1 .. Len(es) :
                     /\ es[i].key = k
                     /\ \A j \in i + 1 .. Len(es) : es[j].key # k
  IN  [k \in assigned |-> es[lastOf(k)].value]

BMgetAll(bm) == ObjOf(Flatten(bm.buckets))

BMgetAllBuckets(bm) == bm.buckets

\* getBucketStructure(): for each bucket its index, its entries as an object
\* and their number.
getBucketStructure(bm) ==
  [i \in DOMAIN bm.buckets |->
     [bucketIndex |-> i,
      items |-> ObjOf(bm.buckets[i]),
      itemCount |-> Len(bm.buckets[i])]]

----------------------------------------------------------------------------
(* StringUtils *)

\* splitString(str, delimiter) for a one-character delimiter, on the code
\* units lo .. hi of str: the pieces the loop collects there, the last one
\* being the `current` it ends with.  Two adjacent ranges combine by gluing
\* the last piece of the first to the first piece of the second.
RECURSIVE SplitRange(_, _, _, _)
SplitRange(str, delimiter, lo, hi) ==
  IF lo > hi THEN << <<>> >>
  ELSE IF lo = hi
       THEN IF str[lo] = delimiter THEN << <<>>, <<>> >> ELSE << <<str[lo]>> >>
  ELSE LET mid == (lo + hi) \div 2
           l == SplitRange(str, delimiter, lo, mid)
           r == SplitRange(str, delimiter, mid + 1, hi)
       IN  SubSeq(l, 1, Len(l) - 1) \o <<l[Len(l)] \o r[1]>> \o Tail(r)

splitString(str, delimiter) == SplitRange(str, delimiter, 1, Len(str))

\* indexOfString(str, search) for a one-character search string, as the
\* index of the code (from 0), -1 when there is no occurrence.
RECURSIVE IndexFrom(_, _, _)
IndexFrom(str, search, i) ==
  IF i > Len(str) THEN -1
  ELSE IF str[i] = search THEN i - 1
  ELSE IndexFrom(str, search, i + 1)

indexOfString(str, search) == IndexFrom(str, search, 1)

\* Mutant: a backslash is copied as it is.
RECURSIVE EscapeFrom_nobackslash(_, _, _)
EscapeFrom_nobackslash(str, i, result) ==
  IF i > StrLength(str) THEN result
  ELSE LET char == str[i]
       IN  IF char = Colon
           THEN EscapeFrom_nobackslash(str, i + 1, result \o <<Colon, Colon>>)
           ELSE IF char = Newline
                THEN EscapeFrom_nobackslash(str, i + 1,
                                            result \o <<Backslash, LetterN>>)
           ELSE EscapeFrom_nobackslash(str, i + 1, Append(result, char))

RECURSIVE EscapeFrom(_, _, _)
EscapeFrom(str, i, result) ==
  IF i > StrLength(str) THEN result
  ELSE LET char == str[i]
       IN  IF char = Colon THEN EscapeFrom(str, i + 1, result \o <<Colon, Colon>>)
           ELSE IF char = Newline
                THEN EscapeFrom(str, i + 1, result \o <<Backslash, LetterN>>)
           ELSE IF char = Backslash
                THEN EscapeFrom(str, i + 1, result \o <<Backslash, Backslash>>)
           ELSE EscapeFrom(str, i + 1, Append(result, char))

escapeString(str) == EscapeFrom(str, 1, <<>>)

RECURSIVE UnescapeFrom(_, _, _)
UnescapeFrom(str, i, result) ==
  IF i > Len(str) THEN result
  ELSE IF str[i] = Backslash /\ i + 1 <= Len(str)
       THEN IF str[i + 1] = LetterN
            THEN UnescapeFrom(str, i + 2, Append(result, Newline))
            ELSE IF str[i + 1] = Backslash
                 THEN UnescapeFrom(str, i + 2, Append(result, Backslash))
                 ELSE UnescapeFrom(str, i + 1, Append(result, str[i]))
  ELSE IF str[i] = Colon /\ i + 1 <= Len(str) /\ str[i + 1] = Colon
       THEN UnescapeFrom(str, i + 2, Append(result, Colon))
  ELSE UnescapeFrom(str, i + 1, Append(result, str[i]))

unescapeString(str) == UnescapeFrom(str, 1, <<>>)

\* The code units String.prototype.trim strips: white space and line
\* terminators.
WhiteSpace ==
  {9, 10, 11, 12, 13, 32, 160, 5760, 8232, 8233, 8239, 8287, 12288, 65279}
    \cup (8192 .. 8202)

RECURSIVE TrimStart(_)
TrimStart(str) ==
  IF str # <<>> /\ Head(str) \in WhiteSpace THEN TrimStart(Tail(str)) ELSE str

RECURSIVE TrimEnd(_)
TrimEnd(str) ==
  IF str # <<>> /\ str[Len(str)] \in WhiteSpace
  THEN TrimEnd(SubSeq(str, 1, Len(str) - 1))
  ELSE str

\* line.trim()
trim(str) == TrimEnd(TrimStart(str))

\* str.substring(from) and str.substring(from, to), indices of the code.
SubstringFrom(str, from) == SubSeq(str, from + 1, Len(str))
Substring(str, from, to) == SubSeq(str, from + 1, to)

----------------------------------------------------------------------------
(* DiskPersistence *)

\* `${safeKey}:${safeValue}`
EncodeLine(entry) ==
  escapeString(entry.key) \o <<Colon>> \o escapeString(entry.value)

\* lines.join('\n')
\* The lines lo .. hi with a newline between each two.
RECURSIVE JoinRange(_, _, _)
JoinRange(lines, lo, hi) ==
  IF lo > hi THEN <<>>
  ELSE IF lo = hi THEN lines[lo]
  ELSE LET mid == (lo + hi) \div 2
       IN  JoinRange(lines, lo, mid) \o <<Newline>> \o JoinRange(lines, mid + 1, hi)

JoinLines(lines) == JoinRange(lines, 1, Len(lines))

\* The lines save collects from the buckets.
SaveLines(buckets) ==
  LET es == Flatten(buckets) IN [i \in 1 .. Len(es) |-> EncodeLine(es[i])]

\* The content save hands to writeFileSync.
SaveContent(buckets) == JoinLines(SaveLines(buckets))

\* What a save that throws (mkdirSync or writeFileSync failing) can leave on
\* disk: the file as it was, or the file truncated by the open and not or
\* only partly written.  Of the partial contents the empty file is kept.
FailedWrite(old, content) == {old, <<>>}

\* Mutant: the write appends to the file.
save_append(old, buckets, ok) ==
  IF ok
  THEN {IF old = NoFile THEN SaveContent(buckets)
        ELSE old \o <<Newline>> \o SaveContent(buckets)}
  ELSE FailedWrite(old, SaveContent(buckets))

\* save(buckets) on the file old: the files it can leave, one when the write
\* goes through (ok), those of FailedWrite when it throws.
save(old, buckets, ok) ==
  IF ok THEN {SaveContent(buckets)} ELSE FailedWrite(old, SaveContent(buckets))

\* Mutant: the loop takes every line for an entry, without the tests of
\* line and of colonIndex (substring takes -1 for 0).
DecodeLine_nocheck(rawLine) ==
  LET line == trim(rawLine)
      colonIndex == indexOfString(line, Colon)
  IN  <<[key |-> unescapeString(Substring(line, 0, colonIndex)),
         value |-> unescapeString(SubstringFrom(line, colonIndex + 1))]>>

\* The body of load's loop for one line: the entries it adds (none or one).
DecodeLine(rawLine) ==
  LET line == trim(rawLine)
      colonIndex == indexOfString(line, Colon)
  IN  IF line # <<>> /\ colonIndex > 0
      THEN <<[key |-> unescapeString(Substring(line, 0, colonIndex)),
              value |-> unescapeString(SubstringFrom(line, colonIndex + 1))]>>
      ELSE <<>>

\* What the rounds lo .. hi of load's loop add to result.
RECURSIVE Decode(_, _, _)
Decode(lines, lo, hi) ==
  IF lo > hi THEN <<>>
  ELSE IF lo = hi THEN DecodeLine(lines[lo])
  ELSE LET mid == (lo + hi) \div 2
       IN  Decode(lines, lo, mid) \o Decode(lines, mid + 1, hi)

\* load(): no entries when the file is absent or reading it throws.
load(f, readOk) ==
  IF f = NoFile \/ ~readOk THEN <<>>
  ELSE LET lines == splitString(f, Newline) IN Decode(lines, 1, Len(lines))

----------------------------------------------------------------------------
(* HashMapStore *)

InitialBucketCount == 16

\* loadFactorThreshold = 0.75 as the fraction ThresholdNum / ThresholdDen.
ThresholdNum == 3
ThresholdDen == 4

\* The three fields the constructor sets before loadFromDisk.
NewStore ==
  [bucketCount |-> InitialBucketCount,
   hashFunction |-> NewHashFunction(InitialBucketCount),
   bucketManager |-> NewBucketManager(InitialBucketCount)]

getAllKeys(S) == BMgetAllKeys(S.bucketManager)

getAll(S) == BMgetAll(S.bucketManager)

\* Mutant: the threshold itself already resizes.
shouldResize_ge(S) ==
  Len(BMgetAllKeys(S.bucketManager)) * ThresholdDen >= ThresholdNum * S.bucketCount

\* getLoadFactor() > loadFactorThreshold.  totalItems / bucketCount and 0.75
\* are exact in binary floating point for the counts in reach, so the
\* comparison is the comparison of the cross products.
shouldResize(S) ==
  Len(getAllKeys(S)) * ThresholdDen > ThresholdNum * S.bucketCount

setWithoutSave(S, key, value) ==
  LET bucketIndex == hash(S.hashFunction, key)
  IN  [S EXCEPT !.bucketManager = setInBucket(@, bucketIndex, key, value)]

\* The store after the rounds lo .. hi of resize's reinsertion loop, begun
\* on the store S: the rounds up to mid, then the others on what they leave.
RECURSIVE Reinsert(_, _, _, _, _)
Reinsert(S, allKeys, allData, lo, hi) ==
  IF lo > hi THEN S
  ELSE IF lo = hi
       THEN setWithoutSave(S, allKeys[lo], ObjRead(allData, allKeys[lo]))
  ELSE LET mid == (lo + hi) \div 2
       IN  CHOOSE done \in
             {Reinsert(half, allKeys, allData, mid + 1, hi) :
                half \in {Reinsert(S, allKeys, allData, lo, mid)}} : TRUE

\* Mutant: the hash function keeps the old bucket count.
resize_oldhash(S) ==
  LET allData == BMgetAll(S.bucketManager)
      allKeys == BMgetAllKeys(S.bucketManager)
      n == S.bucketCount * 2
      fresh == [bucketCount |-> n,
                hashFunction |-> NewHashFunction(S.bucketCount),
                bucketManager |-> NewBucketManager(n)]
  IN  Reinsert(fresh, allKeys, allData, 1, Len(allKeys))

\* Mutant: the store's own bucketCount field is left as it was.
resize_keepcount(S) ==
  LET allData == BMgetAll(S.bucketManager)
      allKeys == BMgetAllKeys(S.bucketManager)
      n == S.bucketCount * 2
      fresh == [bucketCount |-> S.bucketCount,
                hashFunction |-> NewHashFunction(n),
                bucketManager |-> NewBucketManager(n)]
  IN  Reinsert(fresh, allKeys, allData, 1, Len(allKeys))

\* Mutant: the table grows by sixteen buckets.
resize_grow16(S) ==
  LET allData == BMgetAll(S.bucketManager)
      allKeys == BMgetAllKeys(S.bucketManager)
      n == S.bucketCount + InitialBucketCount
      fresh == [bucketCount |-> n,
                hashFunction |-> NewHashFunction(n),
                bucketManager |-> NewBucketManager(n)]
  IN  Reinsert(fresh, allKeys, allData, 1, Len(allKeys))

resize(S) ==
  LET allData == BMgetAll(S.bucketManager)
      allKeys == BMgetAllKeys(S.bucketManager)
      n == S.bucketCount * 2
      fresh == [bucketCount |-> n,
                hashFunction |-> NewHashFunction(n),
                bucketManager |-> NewBucketManager(n)]
  IN  Reinsert(fresh, allKeys, allData, 1, Len(allKeys))

has(S, key) ==
  hasInBucket(S.bucketManager, hash(S.hashFunction, key), key)

get(S, key) ==
  getFromBucket(S.bucketManager, hash(S.hashFunction, key), key)

getBucketForKey(S, key) == hash(S.hashFunction, key)

\* The sum of itemCount over the records lo .. hi of structure.
RECURSIVE SumItems(_, _, _)
SumItems(structure, lo, hi) ==
  IF lo > hi THEN 0
  ELSE IF lo = hi THEN structure[lo].itemCount
  ELSE LET mid == (lo + hi) \div 2
       IN  SumItems(structure, lo, mid) + SumItems(structure, mid + 1, hi)

\* Mutant: the loop over the structure starts at its second record.
visualizeBuckets_fromone(S) ==
  LET structure == getBucketStructure(S.bucketManager)
      n == Cardinality(DOMAIN structure)
  IN  [totalBuckets |-> S.bucketCount,
       totalItems |-> SumItems(structure, 1, n - 1),
       buckets |-> structure,
       hashDistribution |->
         [b \in {structure[i].bucketIndex : i \in DOMAIN structure \ {0}} |->
            structure[b].itemCount]]

visualizeBuckets(S) ==
  LET structure == getBucketStructure(S.bucketManager)
      n == Cardinality(DOMAIN structure)
  IN  [totalBuckets |-> S.bucketCount,
       totalItems |-> SumItems(structure, 0, n - 1),
       buckets |-> structure,
       hashDistribution |->
         [b \in {structure[i].bucketIndex : i \in DOMAIN structure} |->
            structure[b].itemCount]]

\* currentLoadFactor is the quotient totalItems / bucketCount, kept as the
\* pair of the two; it is above the threshold 0.75 when
\* totalItems * 4 > 3 * bucketCount.
getLoadFactorInfo(S) ==
  LET totalItems == Len(BMgetAllKeys(S.bucketManager))
  IN  [currentLoadFactor |-> <<totalItems, S.bucketCount>>,
       threshold |-> <<ThresholdNum, ThresholdDen>>,
       totalItems |-> totalItems,
       totalBuckets |-> S.bucketCount,
       shouldResize |-> totalItems * ThresholdDen > ThresholdNum * S.bucketCount]

\* The test of getKeysByPrefix's loop: key starts with prefix.
StartsWith(key, prefix) ==
  /\ Len(key) >= Len(prefix)
  /\ \A j \in 1 .. Len(prefix) : key[j] = prefix[j]

getKeysByPrefix(S, prefix) ==
  SelectSeq(BMgetAllKeys(S.bucketManager), LAMBDA key : StartsWith(key, prefix))

\* value || "": the empty string for undefined and for the empty string.
OrEmpty(value) == IF value = Undefined \/ value = <<>> THEN <<>> ELSE value

getUserData(S, userPrefix) ==
  LET keys == getKeysByPrefix(S, Append(userPrefix, Underscore))
      prefixLength == Len(userPrefix) + 1
  IN  ObjOf([i \in 1 .. Len(keys) |->
               [key |-> SubstringFrom(keys[i], prefixLength),
                value |-> OrEmpty(get(S, keys[i]))]])

\* Mutant: an overwrite checks the load factor too.
setInMemory_nocheck(S, key, value) ==
  LET S1 == setWithoutSave(S, key, value)
  IN  IF shouldResize(S1) THEN resize(S1) ELSE S1

\* set up to, and without, saveToDisk.
setInMemory(S, key, value) ==
  LET exists == has(S, key)
      S1 == setWithoutSave(S, key, value)
  IN  IF ~exists /\ shouldResize(S1) THEN resize(S1) ELSE S1

\* The store after the rounds lo .. hi of loadFromDisk's loop, begun on S:
\* the rounds up to mid, then the others on what they leave.
RECURSIVE Replay(_, _, _, _)
Replay(S, data, lo, hi) ==
  IF lo > hi THEN S
  ELSE IF lo = hi THEN setWithoutSave(S, data[lo].key, data[lo].value)
  ELSE LET mid == (lo + hi) \div 2
       IN  CHOOSE done \in
             {Replay(half, data, mid + 1, hi) :
                half \in {Replay(S, data, lo, mid)}} : TRUE

\* The constructor: fresh components, then loadFromDisk.
Construct(f, readOk) ==
  LET data == load(f, readOk) IN Replay(NewStore, data, 1, Len(data))

----------------------------------------------------------------------------
(* Inputs *)

\* Largest number of entries in the file the first store is constructed on.
MaxFill == 25

\* Saves that may fail in one behaviour.
MaxWriteFailures == 1

\* "1" and "2"
Values == {<<49>>, <<50>>}

\* "a", which shares bucket 1 of 16 and of 32 with "fg", and "__proto__".
HotKeys == {<<97>>, ProtoKey}

\* "fa", "fb", ...: keys that fill the table.
FillerKey(i) == <<102, 97 + i>>

FillerFile(n) ==
  JoinLines([i \in 1 .. n |->
               EncodeLine([key |-> FillerKey(i - 1), value |-> <<49>>])])

\* "a:1", "a:2": a file that repeats a key.
DupFile == <<97, 58, 49, 10, 97, 58, 50>>

InitialFiles ==
  {NoFile, DupFile, FillerFile(11), FillerFile(13), FillerFile(MaxFill)}

\* The keys the calls are made with.
OpKeys == HotKeys

\* Every key a behaviour can store.
AllKeys == HotKeys \cup {FillerKey(i) : i \in 0 .. MaxFill - 1}

----------------------------------------------------------------------------
(* The reference map run beside the store *)

RefPut(r, key, value) ==
  [k \in DOMAIN r \cup {key} |-> IF k = key THEN value ELSE r[k]]

RefRemove(r, key) == [k \in DOMAIN r \ {key} |-> r[k]]

\* The reference map after put(es[i].key, es[i].value) for i = 1 .. Len(es).
RefOfEntries(es) ==
  LET lastOf(k) == CHOOSE i \in 1 .. Len(es) :
                     /\ es[i].key = k
                     /\ \A j \in i + 1 .. Len(es) : es[j].key # k
  IN  [k \in {es[i].key : i \in 1 .. Len(es)} |-> es[lastOf(k)].value]

----------------------------------------------------------------------------
(* Operations *)

NoKey == <<>>

\* No second instance: the process has one HashMapStore.
NoStore == <<>>

\* What the last call was, with the `exists` of set, whether set went
\* through resize, the value returned and how the save ended.
Constructed ==
  [op |-> "construct", key |-> NoKey, value |-> NoKey, ret |-> "void",
   existed |-> FALSE, resized |-> FALSE, wrote |-> "none"]

Outcome(ok) == IF ok THEN "ok" ELSE "failed"

\* Mutant: the save keeps the entries of the file whose keys the table does
\* not hold, ahead of the table's own.
saveToDisk_merge(S, ok) ==
  LET kept == SelectSeq(load(file, TRUE), LAMBDA e : ~has(S, e.key))
      lines == [i \in 1 .. Len(kept) |-> EncodeLine(kept[i])]
                 \o SaveLines(BMgetAllBuckets(S.bucketManager))
  IN  {JoinLines(lines)}

\* saveToDisk(): the files it can leave.
saveToDisk(S, ok) == save(file, BMgetAllBuckets(S.bucketManager), ok)

MayWrite(ok) == ok \/ failures < MaxWriteFailures

Init ==
  /\ file \in InitialFiles
  /\ store = Construct(file, TRUE)
  /\ ref = RefOfEntries(load(file, TRUE))
  /\ last = Constructed
  /\ failures = 0
  /\ store2 = NoStore

\* Mutant: loadFromDisk replays through set, which saves after each entry.
ConstructFile_flush(f, readOk) ==
  IF load(f, readOk) = <<>> THEN f
  ELSE SaveContent(Construct(f, readOk).bucketManager.buckets)

\* The file after new HashMapStore(filePath) on the file f: load only reads
\* it, and loadFromDisk replays through setWithoutSave, which does not call
\* saveToDisk.
ConstructFile(f, readOk) == f

\* new HashMapStore(filePath) in a new process, on the file as it is.
Restart(readOk) ==
  /\ store' = Construct(file, readOk)
  /\ ref' = RefOfEntries(load(file, readOk))
  /\ last' = Constructed
  /\ file' = ConstructFile(file, readOk)
  /\ UNCHANGED <<failures, store2>>

\* Mutant: a failed write is not caught and the call throws.
Set_throws(key, value, ok) ==
  \E S1 \in {setInMemory(store, key, value)} :
      /\ MayWrite(ok)
      /\ store' = S1
      /\ file' \in saveToDisk(S1, ok)
      /\ failures' = IF ok THEN failures ELSE failures + 1
      /\ UNCHANGED store2
      /\ ref' = RefPut(ref, key, value)
      /\ last' = [op |-> "set", key |-> key, value |-> value,
                  ret |-> IF ok THEN "void" ELSE "throws",
                  existed |-> has(store, key),
                  resized |-> S1.bucketCount # store.bucketCount,
                  wrote |-> Outcome(ok)]

Set(key, value, ok) ==
  \E S1 \in {setInMemory(store, key, value)} :
      /\ MayWrite(ok)
      /\ store' = S1
      /\ file' \in saveToDisk(S1, ok)
      /\ failures' = IF ok THEN failures ELSE failures + 1
      /\ UNCHANGED store2
      /\ ref' = RefPut(ref, key, value)
      /\ last' = [op |-> "set", key |-> key, value |-> value, ret |-> "void",
                  existed |-> has(store, key),
                  resized |-> S1.bucketCount # store.bucketCount,
                  wrote |-> Outcome(ok)]

\* Mutant: update stores a key that is missing.
Update_upsert(key, value, ok) ==
  \E S1 \in {setWithoutSave(store, key, value)} :
      /\ MayWrite(ok)
      /\ store' = S1
      /\ file' \in saveToDisk(S1, ok)
      /\ failures' = IF ok THEN failures ELSE failures + 1
      /\ UNCHANGED store2
      /\ ref' = RefPut(ref, key, value)
      /\ last' = [op |-> "update", key |-> key, value |-> value,
                  ret |-> "true", existed |-> has(store, key),
                  resized |-> FALSE, wrote |-> Outcome(ok)]

Update(key, value, ok) ==
  LET bucketIndex == hash(store.hashFunction, key)
  IN  IF hasInBucket(store.bucketManager, bucketIndex, key)
      THEN \E S1 \in {[store EXCEPT !.bucketManager =
                         setInBucket(@, bucketIndex, key, value)]} :
               /\ MayWrite(ok)
               /\ store' = S1
               /\ file' \in saveToDisk(S1, ok)
               /\ failures' = IF ok THEN failures ELSE failures + 1
               /\ UNCHANGED store2
               /\ ref' = RefPut(ref, key, value)
               /\ last' = [op |-> "update", key |-> key, value |-> value,
                           ret |-> "true", existed |-> TRUE,
                           resized |-> FALSE, wrote |-> Outcome(ok)]
      ELSE /\ ok
           /\ last' = [op |-> "update", key |-> key, value |-> value,
                       ret |-> "false", existed |-> FALSE, resized |-> FALSE,
                       wrote |-> "none"]
           /\ UNCHANGED <<store, file, failures, ref, store2>>

Delete(key, ok) ==
  LET bucketIndex == hash(store.hashFunction, key)
      d == deleteFromBucket(store.bucketManager, bucketIndex, key)
  IN  IF d.ret
      THEN \E S1 \in {[store EXCEPT !.bucketManager = d.bm]} :
               /\ MayWrite(ok)
               /\ store' = S1
               /\ file' \in saveToDisk(S1, ok)
               /\ failures' = IF ok THEN failures ELSE failures + 1
               /\ UNCHANGED store2
               /\ ref' = RefRemove(ref, key)
               /\ last' = [op |-> "delete", key |-> key, value |-> NoKey,
                           ret |-> "true", existed |-> TRUE,
                           resized |-> FALSE, wrote |-> Outcome(ok)]
      ELSE /\ ok
           /\ last' = [op |-> "delete", key |-> key, value |-> NoKey,
                       ret |-> "false", existed |-> FALSE, resized |-> FALSE,
                       wrote |-> "none"]
           /\ UNCHANGED <<store, file, failures, ref, store2>>

\* The store with a disk that takes every write.
Next ==
  \/ \E key \in OpKeys, value \in Values : Set(key, value, TRUE)
  \/ \E key \in OpKeys, value \in Values : Update(key, value, TRUE)
  \/ \E key \in OpKeys : Delete(key, TRUE)
  \/ \E readOk \in BOOLEAN : Restart(readOk)

Spec == Init /\ [][Next]_vars

\* A store that starts empty and is used, never restarted.
InitEmpty ==
  /\ file = NoFile
  /\ store = Construct(file, TRUE)
  /\ ref = RefOfEntries(<<>>)
  /\ last = Constructed
  /\ failures = 0
  /\ store2 = NoStore

\* "a", "__proto__" and "fg".
EmptyKeys == OpKeys \cup {FillerKey(6)}

NextOps ==
  \/ \E key \in EmptyKeys, value \in Values : Set(key, value, TRUE)
  \/ \E key \in EmptyKeys, value \in Values : Update(key, value, TRUE)
  \/ \E key \in EmptyKeys : Delete(key, TRUE)

SpecEmpty == InitEmpty /\ [][NextOps]_vars

\* The store with a disk on which a write can fail.
InitFail ==
  /\ file \in {NoFile, FillerFile(11)}
  /\ store = Construct(file, TRUE)
  /\ ref = RefOfEntries(load(file, TRUE))
  /\ last = Constructed
  /\ failures = 0
  /\ store2 = NoStore

NextFail ==
  \/ \E key \in OpKeys, value \in Values, ok \in BOOLEAN :
       Set(key, value, ok)
  \/ \E key \in OpKeys, value \in Values, ok \in BOOLEAN :
       Update(key, value, ok)
  \/ \E key \in OpKeys, ok \in BOOLEAN : Delete(key, ok)
  \/ \E readOk \in BOOLEAN : Restart(readOk)

SpecFail == InitFail /\ [][NextFail]_vars

\* The store used with keys and values made of the characters the file
\* format escapes: colon, backslash, newline, and the letter n.
MaxKeyLen == 2
MaxValueLen == 2
MaxEntriesRT == 1

EscapedAlphabet == {Colon, Backslash, LetterN, Newline}

StringsUpTo(n) == UNION {[1 .. m -> EscapedAlphabet] : m \in 0 .. n}

\* KeysController.create answers 400 to an empty key.
RTKeys == StringsUpTo(MaxKeyLen) \ {<<>>}

RTValues == StringsUpTo(MaxValueLen)

InitRT ==
  /\ file = NoFile
  /\ store = Construct(file, TRUE)
  /\ ref = RefOfEntries(<<>>)
  /\ last = Constructed
  /\ failures = 0
  /\ store2 = NoStore

NextRT ==
  \/ \E key \in RTKeys, value \in RTValues :
       /\ Len(getAllKeys(store)) < MaxEntriesRT \/ has(store, key)
       /\ Set(key, value, TRUE)
  \/ Restart(TRUE)

SpecRT == InitRT /\ [][NextRT]_vars

----------------------------------------------------------------------------
(* StringUtils called on its own: escapeString, then unescapeString on what
   it returned *)

MaxEscapeLen == 4

\* escapeString(str); the call is recorded with its argument as key.
EscapeString(str) ==
  /\ last' = [op |-> "escapeString", key |-> str, value |-> NoKey,
              ret |-> escapeString(str), existed |-> FALSE,
              resized |-> FALSE, wrote |-> "none"]
  /\ UNCHANGED <<store, file, ref, failures, store2>>

\* unescapeString on the string the last escapeString returned; the call is
\* recorded with its argument as key and the string that was escaped as
\* value.
UnescapeString ==
  /\ last.op = "escapeString"
  /\ last' = [op |-> "unescapeString", key |-> last.ret, value |-> last.key,
              ret |-> unescapeString(last.ret), existed |-> FALSE,
              resized |-> FALSE, wrote |-> "none"]
  /\ UNCHANGED <<store, file, ref, failures, store2>>

NextEscape ==
  \/ \E str \in StringsUpTo(MaxEscapeLen) : EscapeString(str)
  \/ UnescapeString

SpecEscape == InitEmpty /\ [][NextEscape]_vars

----------------------------------------------------------------------------
(* A store whose keys meet in one bucket *)

\* "A", "a" and "q", all in bucket 1 of 16, and "b", in bucket 2.
BucketKeys == {<<65>>, <<97>>, <<113>>, <<98>>}

NextBucket ==
  \/ \E key \in BucketKeys, value \in Values : Set(key, value, TRUE)
  \/ \E key \in BucketKeys, value \in Values : Update(key, value, TRUE)
  \/ \E key \in BucketKeys : Delete(key, TRUE)

SpecBucket == InitEmpty /\ [][NextBucket]_vars

----------------------------------------------------------------------------
(* Two HashMapStore instances, in two processes, constructed on one file.
   Each call runs in its own process from its first statement to its return;
   the calls of the two processes come in any order. *)

\* set(key, value) on the second instance.
Set2(key, value) ==
  \E S1 \in {setInMemory(store2, key, value)} :
      /\ store2' = S1
      /\ file' \in saveToDisk(S1, TRUE)
      /\ ref' = RefPut(ref, key, value)
      /\ last' = [op |-> "store2.set", key |-> key, value |-> value,
                  ret |-> "void", existed |-> has(store2, key),
                  resized |-> S1.bucketCount # store2.bucketCount,
                  wrote |-> "ok"]
      /\ UNCHANGED <<store, failures>>

\* update(key, value) on the second instance.
Update2(key, value) ==
  LET bucketIndex == hash(store2.hashFunction, key)
  IN  IF hasInBucket(store2.bucketManager, bucketIndex, key)
      THEN \E S1 \in {[store2 EXCEPT !.bucketManager =
                         setInBucket(@, bucketIndex, key, value)]} :
               /\ store2' = S1
               /\ file' \in saveToDisk(S1, TRUE)
               /\ ref' = RefPut(ref, key, value)
               /\ last' = [op |-> "store2.update", key |-> key,
                           value |-> value, ret |-> "true",
                           existed |-> TRUE, resized |-> FALSE,
                           wrote |-> "ok"]
               /\ UNCHANGED <<store, failures>>
      ELSE /\ last' = [op |-> "store2.update", key |-> key, value |-> value,
                       ret |-> "false", existed |-> FALSE, resized |-> FALSE,
                       wrote |-> "none"]
           /\ UNCHANGED <<store, store2, file, failures, ref>>

\* delete(key) on the second instance.
Delete2(key) ==
  LET bucketIndex == hash(store2.hashFunction, key)
      d == deleteFromBucket(store2.bucketManager, bucketIndex, key)
  IN  IF d.ret
      THEN \E S1 \in {[store2 EXCEPT !.bucketManager = d.bm]} :
               /\ store2' = S1
               /\ file' \in saveToDisk(S1, TRUE)
               /\ ref' = RefRemove(ref, key)
               /\ last' = [op |-> "store2.delete", key |-> key,
                           value |-> NoKey, ret |-> "true",
                           existed |-> TRUE, resized |-> FALSE,
                           wrote |-> "ok"]
               /\ UNCHANGED <<store, failures>>
      ELSE /\ last' = [op |-> "store2.delete", key |-> key, value |-> NoKey,
                       ret |-> "false", existed |-> FALSE, resized |-> FALSE,
                       wrote |-> "none"]
           /\ UNCHANGED <<store, store2, file, failures, ref>>

\* "a" and "b".
SharedKeys == {<<97>>, <<98>>}

\* The file the two instances are constructed on: none, or "a:1".
InitShared ==
  /\ file \in {NoFile, <<97, Colon, 49>>}
  /\ store = Construct(file, TRUE)
  /\ store2 = Construct(file, TRUE)
  /\ ref = RefOfEntries(load(file, TRUE))
  /\ last = Constructed
  /\ failures = 0

NextShared ==
  \/ \E key \in SharedKeys, value \in Values : Set(key, value, TRUE)
  \/ \E key \in SharedKeys, value \in Values : Update(key, value, TRUE)
  \/ \E key \in SharedKeys : Delete(key, TRUE)
  \/ \E key \in SharedKeys, value \in Values : Set2(key, value)
  \/ \E key \in SharedKeys, value \in Values : Update2(key, value)
  \/ \E key \in SharedKeys : Delete2(key)

SpecShared == InitShared /\ [][NextShared]_vars

----------------------------------------------------------------------------
(* KeysController: POST /keys *)

\* String(value) for a value that is a string.
StringOf(value) == value

\* create(req, res) with req.body = {key, value}, from its first statement
\* to the response: 400 for a missing key or value, 409 for a key the store
\* has, else set(key, String(value)) and 201.
Create(key, value) ==
  IF key = Undefined \/ key = <<>> \/ value = Undefined
  THEN /\ last' = [op |-> "create", key |-> key, value |-> value,
                   ret |-> "400", existed |-> FALSE, resized |-> FALSE,
                   wrote |-> "none"]
       /\ UNCHANGED <<store, file, failures, ref, store2>>
  ELSE IF has(store, key)
  THEN /\ last' = [op |-> "create", key |-> key, value |-> value,
                   ret |-> "409", existed |-> TRUE, resized |-> FALSE,
                   wrote |-> "none"]
       /\ UNCHANGED <<store, file, failures, ref, store2>>
  ELSE \E S1 \in {setInMemory(store, key, StringOf(value))} :
           /\ store' = S1
           /\ file' \in saveToDisk(S1, TRUE)
           /\ ref' = RefPut(ref, key, StringOf(value))
           /\ last' = [op |-> "create", key |-> key, value |-> value,
                       ret |-> "201", existed |-> FALSE,
                       resized |-> S1.bucketCount # store.bucketCount,
                       wrote |-> "ok"]
           /\ UNCHANGED <<failures, store2>>

\* The keys of the requests: "a", "__proto__", the empty string and none.
ApiKeys == HotKeys \cup {<<>>, Undefined}

\* The values of the requests: "1", "2", the empty string and none.
ApiValues == Values \cup {<<>>, Undefined}

\* The server's store: empty, or loaded from 11 entries, so that the second
\* key created makes the table grow.
InitApi ==
  /\ file \in {NoFile, FillerFile(11)}
  /\ store = Construct(file, TRUE)
  /\ ref = RefOfEntries(load(file, TRUE))
  /\ last = Constructed
  /\ failures = 0
  /\ store2 = NoStore

\* Requests are handled one whole handler after the other, in any order.
NextApi == \E key \in ApiKeys, value \in ApiValues : Create(key, value)

SpecApi == InitApi /\ [][NextApi]_vars

----------------------------------------------------------------------------
(* Read operations *)

\* Mutant: a read operation runs the resize check.
AfterRead_resize(S) == IF shouldResize(S) THEN resize(S) ELSE S

\* The store a read operation leaves: get, has, getAllKeys, getAll,
\* getBucketForKey, getKeysByPrefix, getUserData, getLoadFactorInfo and
\* visualizeBuckets assign no field of the store and of its BucketManager,
\* and build what they return in arrays and objects of their own.
AfterRead(S) == S

\* A call of the read operation op that returns ret.
ReadCall(op, key, ret) ==
  /\ store' = AfterRead(store)
  /\ last' = [op |-> op, key |-> key, value |-> NoKey, ret |-> ret,
              existed |-> FALSE, resized |-> FALSE, wrote |-> "none"]
  /\ UNCHANGED <<file, ref, failures, store2>>

GetBucketForKey(key) ==
  ReadCall("getBucketForKey", key, getBucketForKey(store, key))

Get(key) == ReadCall("get", key, get(store, key))

Has(key) == ReadCall("has", key, has(store, key))

GetAllKeys == ReadCall("getAllKeys", NoKey, getAllKeys(store))

GetAll == ReadCall("getAll", NoKey, getAll(store))

GetKeysByPrefix(prefix) ==
  ReadCall("getKeysByPrefix", prefix, getKeysByPrefix(store, prefix))

GetUserData(userPrefix) ==
  ReadCall("getUserData", userPrefix, getUserData(store, userPrefix))

GetLoadFactorInfo ==
  ReadCall("getLoadFactorInfo", NoKey, getLoadFactorInfo(store))

VisualizeBuckets ==
  ReadCall("visualizeBuckets", NoKey, visualizeBuckets(store))

ReadOps ==
  {"get", "has", "getAllKeys", "getAll", "getBucketForKey", "getKeysByPrefix",
   "getUserData", "getLoadFactorInfo", "visualizeBuckets"}

\* "u_a", "un" and "a": "u_a" is in bucket 7 of 16 and in bucket 23 of 32.
ReadKeys == {<<117, 95, 97>>, <<117, 110>>, <<97>>}

\* "u" and "f".
ReadPrefixes == {<<117>>, <<102>>}

\* A store used and read: empty, or loaded from 11 or from 13 entries.
InitReads ==
  /\ file \in {NoFile, FillerFile(11), FillerFile(13)}
  /\ store = Construct(file, TRUE)
  /\ ref = RefOfEntries(load(file, TRUE))
  /\ last = Constructed
  /\ failures = 0
  /\ store2 = NoStore

NextReads ==
  \/ \E key \in ReadKeys, value \in Values : Set(key, value, TRUE)
  \/ \E key \in ReadKeys : Delete(key, TRUE)
  \/ \E key \in ReadKeys : Get(key)
  \/ \E key \in ReadKeys : Has(key)
  \/ \E key \in ReadKeys : GetBucketForKey(key)
  \/ GetAllKeys
  \/ GetAll
  \/ \E prefix \in ReadPrefixes : GetKeysByPrefix(prefix)
  \/ \E userPrefix \in ReadPrefixes : GetUserData(userPrefix)
  \/ GetLoadFactorInfo
  \/ VisualizeBuckets

SpecReads == InitReads /\ [][NextReads]_vars

----------------------------------------------------------------------------
(* KeysRoutes: the routes in the order setupRoutes registers them, and the
   router's dispatch of a request to the first route whose method and path
   match.  A path is the sequence of its segments; ":name" in a route's path
   matches one segment that is not empty. *)

\* "keys", "visualize", "buckets", "key", "loadfactor" and "user".
SegKeys == <<107, 101, 121, 115>>
SegVisualize == <<118, 105, 115, 117, 97, 108, 105, 122, 101>>
SegBuckets == <<98, 117, 99, 107, 101, 116, 115>>
SegKey == <<107, 101, 121>>
SegLoadfactor == <<108, 111, 97, 100, 102, 97, 99, 116, 111, 114>>
SegUser == <<117, 115, 101, 114>>

\* ":key" and ":userId" in the path of a route.
PathParam == <<-4>>

Routes ==
  << [method |-> "POST", path |-> <<SegKeys>>, handler |-> "create"],
     [method |-> "GET", path |-> <<SegKeys, PathParam>>, handler |-> "get"],
     [method |-> "PUT", path |-> <<SegKeys, PathParam>>,
      handler |-> "update"],
     [method |-> "DELETE", path |-> <<SegKeys, PathParam>>,
      handler |-> "delete"],
     [method |-> "GET", path |-> <<SegKeys>>, handler |-> "list"],
     [method |-> "GET", path |-> <<SegKeys, SegVisualize, SegBuckets>>,
      handler |-> "visualizeBuckets"],
     [method |-> "GET",
      path |-> <<SegKeys, SegVisualize, SegKey, PathParam>>,
      handler |-> "visualizeKey"],
     [method |-> "GET", path |-> <<SegKeys, SegLoadfactor>>,
      handler |-> "getLoadFactor"],
     [method |-> "GET", path |-> <<SegKeys, SegUser, PathParam>>,
      handler |-> "getUserData"] >>

\* The path of a request matches the path of a route.
MatchesPath(pattern, path) ==
  /\ Len(pattern) = Len(path)
  /\ \A i \in 1 .. Len(pattern) :
       IF pattern[i] = PathParam THEN path[i] # <<>>
       ELSE pattern[i] = path[i]

\* The first route from the i-th on that takes the request, 0 if none does.
RECURSIVE FirstMatchFrom(_, _, _)
FirstMatchFrom(method, path, i) ==
  IF i > Len(Routes) THEN 0
  ELSE IF Routes[i].method = method /\ MatchesPath(Routes[i].path, path)
       THEN i
  ELSE FirstMatchFrom(method, path, i + 1)

\* The handler the request is given to, "none" when no route takes it, and
\* its req.params: the segment under the route's parameter, NoKey if the
\* route has none.
Dispatch(method, path) ==
  LET i == FirstMatchFrom(method, path, 1)
      at == IF i = 0 THEN {}
            ELSE {j \in 1 .. Len(path) : Routes[i].path[j] = PathParam}
  IN  [handler |-> IF i = 0 THEN "none" ELSE Routes[i].handler,
       param |-> IF at = {} THEN NoKey ELSE path[CHOOSE j \in at : TRUE]]

\* What the handlers of the GET routes answer.
Respond(handler, param) ==
  CASE handler = "get" ->
         IF get(store, param) = Undefined
         THEN [status |-> 404, body |-> "Key not found"]
         ELSE [status |-> 200,
               body |-> [key |-> param, value |-> get(store, param)]]
    [] handler = "list" ->
         [status |-> 200,
          body |-> [count |-> Len(getAllKeys(store)),
                    keys |-> getAllKeys(store), data |-> getAll(store)]]
    [] handler = "visualizeBuckets" ->
         [status |-> 200, body |-> visualizeBuckets(store)]
    [] handler = "visualizeKey" ->
         [status |-> 200,
          body |-> [key |-> param,
                    bucketIndex |-> getBucketForKey(store, param),
                    exists |-> has(store, param),
                    value |-> get(store, param)]]
    [] handler = "getLoadFactor" ->
         [status |-> 200, body |-> getLoadFactorInfo(store)]
    [] handler = "getUserData" ->
         IF DOMAIN getUserData(store, param) = {}
         THEN [status |-> 404, body |-> "User not found"]
         ELSE [status |-> 200,
               body |-> [userId |-> param,
                         data |-> getUserData(store, param)]]
    [] OTHER -> [status |-> 404, body |-> "none"]

\* A GET request, from its dispatch to the response of the handler that got
\* it.  The call is recorded with the path as key, the method as value and
\* the handler, its req.params and the response as ret.
Request(method, path) ==
  LET handler == Dispatch(method, path).handler
      param == Dispatch(method, path).param
  IN  /\ store' = AfterRead(store)
      /\ last' = [op |-> "request", key |-> path, value |-> method,
                  ret |-> [handler |-> handler, param |-> param,
                           response |-> Respond(handler, param)],
                  existed |-> FALSE, resized |-> FALSE, wrote |-> "none"]
      /\ UNCHANGED <<file, ref, failures, store2>>

\* /keys, /keys/u_a, /keys/loadfactor, /keys/visualize,
\* /keys/visualize/buckets, /keys/visualize/key/u_a, /keys/user/u and /user.
GetPaths ==
  { <<SegKeys>>,
    <<SegKeys, <<117, 95, 97>>>>,
    <<SegKeys, SegLoadfactor>>,
    <<SegKeys, SegVisualize>>,
    <<SegKeys, SegVisualize, SegBuckets>>,
    <<SegKeys, SegVisualize, SegKey, <<117, 95, 97>>>>,
    <<SegKeys, SegUser, <<117>>>>,
    <<SegUser>> }

NextRoutes ==
  \/ \E path \in GetPaths : Request("GET", path)
  \/ \E key \in {<<117, 95, 97>>, SegLoadfactor, SegVisualize},
          value \in Values :
       Create(key, value)

SpecRoutes == InitEmpty /\ [][NextRoutes]_vars

----------------------------------------------------------------------------
(* The hash of keys, in tables of every size *)

MaxDoublings == 2
MaxHashKeyLen == 3

\* "name", "age": the keys of the README's example.
NameKey == <<110, 97, 109, 101>>
AgeKey == <<97, 103, 101>>

\* "bucket": the accumulator ends negative (-1378203158).
NegativeKey == <<98, 117, 99, 107, 101, 116>>

\* "polygenelubricants": the accumulator ends at -2^31.
MinIntKey ==
  <<112, 111, 108, 121, 103, 101, 110, 101, 108, 117, 98, 114, 105, 99, 97,
    110, 116, 115>>

\* "a", "z" and the largest code unit.
HashAlphabet == {97, 122, 65535}

HashKeys ==
  UNION {[1 .. m -> HashAlphabet] : m \in 0 .. MaxHashKeyLen}
    \cup {NameKey, AgeKey, NegativeKey, MinIntKey}

ExampleKeys == {NameKey, AgeKey}

\* An empty store whose table has doubled k times (what is left when the
\* keys that made it grow are deleted).
RECURSIVE Grown(_)
Grown(k) == IF k = 0 THEN NewStore ELSE resize(Grown(k - 1))

InitHash ==
  /\ file = NoFile
  /\ store \in {Grown(k) : k \in 0 .. MaxDoublings}
  /\ ref = RefOfEntries(<<>>)
  /\ last = Constructed
  /\ failures = 0
  /\ store2 = NoStore

NextHash ==
  \/ \E key \in HashKeys : GetBucketForKey(key)
  \/ \E key \in ExampleKeys, value \in Values : Set(key, value, TRUE)

SpecHash == InitHash /\ [][NextHash]_vars

----------------------------------------------------------------------------
(* A store started on a file written by hand *)

MaxFileLen == 5

\* "a", colon, newline and space.
FileAlphabet == {97, Colon, Newline, 32}

LoadFiles ==
  UNION {[1 .. m -> FileAlphabet] : m \in 0 .. MaxFileLen} \cup {NoFile}

InitLoad ==
  /\ file \in LoadFiles
  /\ store = Construct(file, TRUE)
  /\ ref = RefOfEntries(load(file, TRUE))
  /\ last = Constructed
  /\ failures = 0
  /\ store2 = NoStore

NextLoad ==
  \/ \E readOk \in BOOLEAN : Restart(readOk)
  \/ \E value \in Values : Set(<<97>>, value, TRUE)

SpecLoad == InitLoad /\ [][NextLoad]_vars

----------------------------------------------------------------------------
(* What the claims speak of *)

buckets == store.bucketManager.buckets

Count(S) == Len(getAllKeys(S))

Stored(S) == {getAllKeys(S)[i] : i \in 1 .. Count(S)}

RefGet(r, key) == IF key \in DOMAIN r THEN r[key] ELSE Undefined

\* The step is a call of op (the call the state after it records).
Called(op) == last'.op = op

\* Every key but key reads the same before and after the step.
OthersKept(key) ==
  \A k \in AllKeys \ {key} : get(store', k) = get(store, k)

----------------------------------------------------------------------------
(* C1 *)

\* C1: after every sequence of set, update and delete on a store that starts
\* empty, get and has of every key, the set of getAllKeys() and getAll() are
\* those of the reference map, and getAllKeys() lists no key twice.
C1_MatchesReference ==
  /\ \A k \in AllKeys :
       /\ get(store, k) = RefGet(ref, k)
       /\ has(store, k) <=> k \in DOMAIN ref
  /\ Stored(store) = DOMAIN ref
  /\ Count(store) = Cardinality(DOMAIN ref)
  /\ getAll(store) = ref

----------------------------------------------------------------------------
(* C2 *)

\* C2: in every reachable state every stored key occurs once, in one bucket,
\* and the index of that bucket is getBucketForKey(key), which is hash(key)
\* modulo the current bucketCount.
C2_OneBucketPerKey ==
  /\ \A b \in DOMAIN buckets : \A i \in 1 .. Len(buckets[b]) :
       /\ b = getBucketForKey(store, buckets[b][i].key)
       /\ b = AbsMod(HashAcc(buckets[b][i].key, 1, 0), store.bucketCount)
       /\ \A c \in DOMAIN buckets : \A j \in 1 .. Len(buckets[c]) :
            buckets[c][j].key = buckets[b][i].key => c = b /\ j = i
  /\ DOMAIN buckets = 0 .. store.bucketCount - 1

\* A set has just resized and a key sits in a bucket the old table did not
\* have.
C2_Witness ==
  /\ last.op = "set" /\ last.resized
  /\ \E b \in DOMAIN buckets : b >= InitialBucketCount /\ buckets[b] # <<>>

----------------------------------------------------------------------------
(* C3 *)

\* C3: a set of a key that is not stored doubles bucketCount exactly when,
\* with the new entry counted, entries / bucketCount > 0.75, and otherwise
\* leaves it; no set does more than double it once.
C3_ResizeIffAboveThreshold ==
  [][Called("set") /\ ~has(store, last'.key) =>
       /\ store'.bucketCount \in {store.bucketCount, 2 * store.bucketCount}
       /\ store'.bucketCount = 2 * store.bucketCount <=>
            (Count(store) + 1) * ThresholdDen > ThresholdNum * store.bucketCount
    ]_vars

\* A new key has just been set and the table, doubled once, is still above
\* the threshold.
C3_Witness ==
  /\ last.op = "set" /\ ~last.existed /\ last.resized
  /\ Count(store) * ThresholdDen > ThresholdNum * store.bucketCount

----------------------------------------------------------------------------
(* C4 *)

\* C4: a resize changes capacity and placement only: every key reads after
\* the set that resized what it read after the insertion and before the
\* resize, and the number of entries is the same.
C4_ResizeKeepsMapping ==
  [][Called("set") /\ last'.resized =>
       LET before == setWithoutSave(store, last'.key, last'.value)
       IN  /\ \A k \in AllKeys : get(store', k) = get(before, k)
           /\ Count(store') = Count(before)
    ]_vars

----------------------------------------------------------------------------
(* C5 *)

\* C5: a set of a key that is stored leaves bucketCount and the number of
\* entries as they are, whatever the load factor, and changes the value of
\* that key alone.
C5_OverwriteNeverResizes ==
  [][Called("set") /\ has(store, last'.key) =>
       /\ store'.bucketCount = store.bucketCount
       /\ DOMAIN store'.bucketManager.buckets = DOMAIN buckets
       /\ Count(store') = Count(store)
       /\ get(store', last'.key) = last'.value
       /\ OthersKept(last'.key)
    ]_vars

\* A stored key has just been set in a table above the threshold.
C5_Witness ==
  /\ last.op = "set" /\ last.existed
  /\ Count(store) * ThresholdDen > ThresholdNum * store.bucketCount

----------------------------------------------------------------------------
(* C6 *)

RECURSIVE IsPowerOfTwo(_)
IsPowerOfTwo(n) ==
  IF n = 1 THEN TRUE
  ELSE IF n < 1 \/ n % 2 # 0 THEN FALSE
  ELSE IsPowerOfTwo(n \div 2)

\* C6: in the lifetime of a store bucketCount is 16 times a power of two,
\* never decreases, changes by doubling and in set alone; update and delete
\* leave it as it is.
C6_CapacityOnlyDoubles ==
  /\ [](/\ store.bucketCount % InitialBucketCount = 0
        /\ IsPowerOfTwo(store.bucketCount \div InitialBucketCount))
  /\ [][~Called("construct") =>
          \/ store'.bucketCount = store.bucketCount
          \/ /\ store'.bucketCount = 2 * store.bucketCount
             /\ Called("set")
       ]_vars

\* A delete has just left, in a grown table, no more entries than sixteen
\* buckets hold without a resize.
C6_Witness ==
  /\ last.op = "delete" /\ last.ret = "true"
  /\ store.bucketCount > InitialBucketCount
  /\ Count(store) * ThresholdDen <= ThresholdNum * InitialBucketCount

----------------------------------------------------------------------------
(* C7 *)

\* C7: update returns true exactly when the key is stored; then the value of
\* that key alone changes, nothing is added, bucketCount stays and the file
\* holds the table; otherwise the table, bucketCount and the file stay as
\* they are and the key is not created.
C7_UpdateOnlyIfPresent ==
  [][Called("update") =>
       /\ last'.ret = "true" <=> has(store, last'.key)
       /\ last'.ret = "true" =>
            /\ get(store', last'.key) = last'.value
            /\ OthersKept(last'.key)
            /\ Count(store') = Count(store)
            /\ store'.bucketCount = store.bucketCount
            /\ file' = SaveContent(store'.bucketManager.buckets)
       /\ last'.ret = "false" =>
            /\ store' = store
            /\ file' = file
            /\ ~has(store', last'.key)
    ]_vars

\* An update of a missing key has just returned false.
C7_Witness ==
  /\ last.op = "update" /\ last.ret = "false"
  /\ ~has(store, last.key)

----------------------------------------------------------------------------
(* C8 *)

\* C8: delete returns true exactly when the key is stored; then that entry
\* is gone, every other key keeps its value and the file holds the table;
\* otherwise the table, bucketCount and the file stay as they are.
C8_DeleteOnlyIfPresent ==
  [][Called("delete") =>
       /\ last'.ret = "true" <=> has(store, last'.key)
       /\ last'.ret = "true" =>
            /\ ~has(store', last'.key)
            /\ Count(store') = Count(store) - 1
            /\ OthersKept(last'.key)
            /\ store'.bucketCount = store.bucketCount
            /\ file' = SaveContent(store'.bucketManager.buckets)
       /\ last'.ret = "false" =>
            /\ store' = store
            /\ file' = file
    ]_vars

\* A delete has just removed one key of several.
C8_Witness ==
  /\ last.op = "delete" /\ last.ret = "true"
  /\ Count(store) > 0

----------------------------------------------------------------------------
(* C9 *)

\* C9: after a set, an update that returned true or a delete that returned
\* true whose write did not fail, the file is one encoded line per entry of
\* the table and nothing else.
C9_FileIsTheTable ==
  last.wrote = "ok" =>
    LET es == Flatten(buckets)
        lines == splitString(file, Newline)
    IN  IF es = <<>> THEN file = <<>>
        ELSE /\ Len(lines) = Len(es)
             /\ \A i \in 1 .. Len(es) : lines[i] = EncodeLine(es[i])

\* A set that resized has just written the file.
C9_Witness ==
  /\ last.op = "set" /\ last.resized /\ last.wrote = "ok"
  /\ file # NoFile

----------------------------------------------------------------------------
(* C10 *)

\* The entries of a sequence of entries, as a set.
EntrySet(es) == {es[i] : i \in 1 .. Len(es)}

\* C10: save followed by load gives back the entries that were saved, keys
\* and values with colons, newlines and backslashes included: after a set
\* has written the table, load reads from the file the entries of the table,
\* no more and no fewer, and a store constructed on the file holds them.
C10_RoundTrip ==
  last.op = "set" /\ last.wrote = "ok" =>
    LET saved == Flatten(buckets)
        loaded == load(file, TRUE)
        restarted == Construct(file, TRUE)
    IN  /\ Len(loaded) = Len(saved)
        /\ EntrySet(loaded) = EntrySet(saved)
        /\ EntrySet(Flatten(restarted.bucketManager.buckets)) = EntrySet(saved)

----------------------------------------------------------------------------
(* C11 *)

\* C11: for every key and every bucketCount the store reaches, hash(key) is
\* an integer i with 0 <= i < bucketCount, also when the 32-bit accumulator
\* ends negative or at -2^31.
C11_HashInRange ==
  last.op = "getBucketForKey" =>
    /\ last.ret \in Int
    /\ 0 <= last.ret
    /\ last.ret < store.bucketCount

\* The hash of a key whose accumulator is -2^31 has just been taken in a
\* table that has grown.
C11_Witness ==
  /\ last.op = "getBucketForKey"
  /\ HashAcc(last.key, 1, 0) = MinInt32
  /\ store.bucketCount > InitialBucketCount

----------------------------------------------------------------------------
(* C12 *)

\* acc * 31 + charCode, wrapped to 32 bits, by a multiplication of the two
\* 16-bit halves.
RefStep(acc, charCode) ==
  ToInt32(HiLimb(acc) * 31, LoLimb(acc) * 31 + charCode)

RECURSIVE RefAcc(_, _)
RefAcc(key, n) ==
  IF n = 0 THEN 0
  ELSE CHOOSE r \in {RefStep(acc, key[n]) : acc \in {RefAcc(key, n - 1)}} :
         TRUE

\* |acc| modulo n, from the remainder of acc itself.
RefReduce(acc, n) == IF acc < 0 THEN (n - (acc % n)) % n ELSE acc % n

\* C12: hash(key) is the reference computation: from 0, for each character
\* acc = acc * 31 + charCode wrapped to a signed 32-bit integer, then the
\* absolute value modulo bucketCount; the shift-and-subtract rounds of the
\* code give the accumulator of the reference.
C12_HashIsReference ==
  last.op = "getBucketForKey" =>
    /\ HashAcc(last.key, 1, 0) = RefAcc(last.key, Len(last.key))
    /\ last.ret = RefReduce(RefAcc(last.key, Len(last.key)), store.bucketCount)

\* The hash of a key whose accumulator wrapped to a negative value that is
\* not -2^31 has just been taken.
C12_Witness ==
  /\ last.op = "getBucketForKey"
  /\ RefAcc(last.key, Len(last.key)) < 0
  /\ RefAcc(last.key, Len(last.key)) # MinInt32

----------------------------------------------------------------------------
(* C13 *)

\* C13: with 16 buckets hash("name") is 11, and "name" set in a store of 16
\* buckets sits in bucket 11.
C13_NameInBucket11 ==
  /\ last.op = "getBucketForKey" /\ last.key = NameKey
       /\ store.bucketCount = 16 => last.ret = 11
  /\ store.bucketCount = 16 /\ has(store, NameKey) =>
       FindInBucket(buckets[11], NameKey) > 0

\* "name" has just been set in a store of 16 buckets.
C13_Witness ==
  /\ last.op = "set" /\ last.key = NameKey
  /\ store.bucketCount = 16

----------------------------------------------------------------------------
(* C14 *)

----------------------------------------------------------------------------
(* C15 *)

\* C15: for every key, stored or not, in every reachable state, the index
\* getBucketForKey(key) returns is the index of the bucket that holds the
\* key right after a set of that key that follows.
C15_BucketForKeyIsSetBucket ==
  [][last.op = "getBucketForKey" /\ Called("set") /\ last'.key = last.key =>
       /\ last.ret \in DOMAIN store'.bucketManager.buckets
       /\ FindInBucket(store'.bucketManager.buckets[last.ret], last.key) > 0
    ]_vars

----------------------------------------------------------------------------
(* C16 *)

\* C16: in every reachable state the shouldResize flag of getLoadFactorInfo()
\* is true exactly when the next set of a key that is not stored resizes.
C16_FlagPredictsResize ==
  [][last.op = "getLoadFactorInfo" /\ Called("set") /\ ~has(store, last'.key) =>
       (last.ret.shouldResize <=> last'.resized)
    ]_vars

----------------------------------------------------------------------------
(* C17 *)

\* C17: a read operation leaves the buckets, bucketCount and the file as
\* they are: it writes no file and resizes nothing.
C17_ReadsChangeNothing ==
  [][last'.op \in ReadOps =>
       /\ store'.bucketManager.buckets = buckets
       /\ store'.bucketCount = store.bucketCount
       /\ store' = store
       /\ file' = file
    ]_vars

\* A read has just returned in a store above the threshold, whose file is
\* not what a save would write.
C17_Witness ==
  /\ last.op \in ReadOps
  /\ shouldResize(store)
  /\ file # NoFile

----------------------------------------------------------------------------
(* C18 *)

\* C18: when the write of a set, an update or a delete fails, the call
\* returns as it does when the write goes through (update and delete return
\* true), the table in memory holds the mutation, and the calls that follow
\* answer from the table in memory, whatever the file holds.
C18_FailedWriteKeepsMemory ==
  /\ [][last'.wrote = "failed" =>
          /\ Called("set") =>
               /\ last'.ret = "void"
               /\ store' = setInMemory(store, last'.key, last'.value)
               /\ has(store', last'.key)
          /\ Called("update") =>
               /\ last'.ret = "true"
               /\ get(store', last'.key) = last'.value
               /\ Count(store') = Count(store)
          /\ Called("delete") =>
               /\ last'.ret = "true"
               /\ ~has(store', last'.key)
               /\ Count(store') = Count(store) - 1
       ]_vars
  /\ [][last.wrote = "failed" /\ (Called("update") \/ Called("delete")) =>
          (last'.ret = "true" <=> has(store, last'.key))
       ]_vars

\* The write of a delete has just failed and the file still holds the key
\* the table has lost.
C18_Witness ==
  /\ last.op = "delete" /\ last.wrote = "failed"
  /\ file # NoFile
  /\ \E i \in 1 .. Len(load(file, TRUE)) : load(file, TRUE)[i].key = last.key

----------------------------------------------------------------------------
(* C19 *)

\* The lines of file f that are not blank (empty, or white space only).
NonBlankLines(f) ==
  SelectSeq(splitString(f, Newline), LAMBDA line : trim(line) # <<>>)

\* C19: a store constructed when the file is absent, or when reading it
\* fails, is the empty store of 16 buckets and the construction returns;
\* the blank lines of a file give no entries: what load returns is what the
\* other lines give.
C19_EmptyStoreWithoutFile ==
  /\ [](last.op = "construct" /\ file = NoFile =>
          /\ Count(store) = 0
          /\ store.bucketCount = 16
          /\ store = NewStore)
  /\ [][Restart(FALSE) =>
          /\ Count(store') = 0
          /\ store'.bucketCount = 16
          /\ store' = NewStore
          /\ last' = Constructed
       ]_vars
  /\ [](file # NoFile =>
          LET lines == splitString(file, Newline)
              others == NonBlankLines(file)
          IN  /\ \A i \in 1 .. Len(lines) :
                   trim(lines[i]) = <<>> => DecodeLine(lines[i]) = <<>>
              /\ Len(load(file, TRUE)) <= Len(others)
              /\ load(file, TRUE) = Decode(others, 1, Len(others)))

\* A store has just been constructed on a file of blank lines and one entry.
C19_Witness ==
  /\ last.op = "construct" /\ file # NoFile
  /\ Len(splitString(file, Newline)) > Len(NonBlankLines(file)) + 1
  /\ Count(store) = 1

----------------------------------------------------------------------------
(* C20 *)

\* The line has no colon that stands alone: each of its runs of colons is
\* made of '::' pairs.
RECURSIVE ColonRunsEven(_, _, _)
ColonRunsEven(line, i, run) ==
  IF i > Len(line) THEN run % 2 = 0
  ELSE IF line[i] = Colon THEN ColonRunsEven(line, i + 1, run + 1)
  ELSE run % 2 = 0 /\ ColonRunsEven(line, i + 1, 0)

NoUnescapedColon(line) == ColonRunsEven(line, 1, 0)

\* The lines of f that have an unescaped colon.
WellFormedLines(f) ==
  SelectSeq(splitString(f, Newline), LAMBDA line : ~NoUnescapedColon(line))

\* C20: load gives no entry for a line that has no unescaped colon, the
\* lines whose colons are all in '::' pairs included, and gives for the file
\* what its other lines give.
C20_MalformedLinesSkipped ==
  file # NoFile =>
    LET lines == splitString(file, Newline)
        others == WellFormedLines(file)
    IN  /\ \A i \in 1 .. Len(lines) :
             NoUnescapedColon(lines[i]) => DecodeLine(lines[i]) = <<>>
        /\ load(file, TRUE) = Decode(others, 1, Len(others))

----------------------------------------------------------------------------
(* C21 *)

\* The index (from 0) of the first colon of line that is not in an escaped
\* '::' pair, reading from the left as unescapeString does; -1 if none.
RECURSIVE UnescapedColonFrom(_, _)
UnescapedColonFrom(line, i) ==
  IF i > Len(line) THEN -1
  ELSE IF line[i] = Backslash /\ i + 1 <= Len(line)
            /\ line[i + 1] \in {LetterN, Backslash}
       THEN UnescapedColonFrom(line, i + 2)
  ELSE IF line[i] = Colon
       THEN IF i + 1 <= Len(line) /\ line[i + 1] = Colon
            THEN UnescapedColonFrom(line, i + 2)
            ELSE i - 1
  ELSE UnescapedColonFrom(line, i + 1)

FirstUnescapedColon(line) == UnescapedColonFrom(line, 1)

\* C21: the entry load decodes from a line that has an unescaped colon is
\* split at the first unescaped colon: the key is the unescaped text before
\* it and the value the unescaped text after it.
C21_SplitAtUnescapedColon ==
  file # NoFile =>
    LET lines == splitString(file, Newline)
    IN  \A i \in 1 .. Len(lines) :
          LET line == trim(lines[i])
              at == FirstUnescapedColon(line)
          IN  DecodeLine(lines[i]) # <<>> /\ at >= 0 =>
                DecodeLine(lines[i]) =
                  <<[key |-> unescapeString(Substring(line, 0, at)),
                     value |-> unescapeString(SubstringFrom(line, at + 1))]>>

----------------------------------------------------------------------------
(* C22 *)

\* C22: constructing a store on a file leaves the file as it is, and the
\* file stays as it is until a set, an update that returns true or a delete
\* that returns true.
C22_ConstructionWritesNothing ==
  /\ [][Called("construct") => file' = file]_vars
  /\ [][file' # file =>
          \/ Called("set")
          \/ Called("update") /\ last'.ret = "true"
          \/ Called("delete") /\ last'.ret = "true"
       ]_vars

\* A store has just been constructed on a file that is not what a save of
\* its table would write.
C22_Witness ==
  /\ last.op = "construct" /\ file # NoFile
  /\ Count(store) > 0
  /\ file # SaveContent(buckets)

----------------------------------------------------------------------------
(* C23 *)

\* "u_a", "u1_a", "u" and "u___proto__".
UserKeys ==
  {<<117, 95, 97>>, <<117, 49, 95, 97>>, <<117>>,
   <<117, Underscore>> \o ProtoKey}

\* "u" and "u1".
UserPrefixes == {<<117>>, <<117, 49>>}

\* A store that starts empty, holds keys of users and is asked for them.
NextUser ==
  \/ \E key \in UserKeys, value \in Values : Set(key, value, TRUE)
  \/ \E key \in UserKeys : Delete(key, TRUE)
  \/ \E userPrefix \in UserPrefixes : GetUserData(userPrefix)

SpecUser == InitEmpty /\ [][NextUser]_vars

\* The stored keys that start with p + "_".
KeysOfUser(S, p) ==
  {k \in Stored(S) : StartsWith(k, Append(p, Underscore))}

\* The rest of key after p + "_".
FieldOf(p, key) == SubstringFrom(key, Len(p) + 1)

\* C23: getUserData(p) returns one field per stored key that starts with
\* p + "_", named by the rest of the key and holding the key's stored value,
\* and no other field.
C23_OneFieldPerUserKey ==
  last.op = "getUserData" =>
    LET p == last.key
        ks == KeysOfUser(store, p)
    IN  /\ DOMAIN last.ret = {FieldOf(p, k) : k \in ks}
        /\ \A k \in ks : last.ret[FieldOf(p, k)] = RefGet(ref, k)

----------------------------------------------------------------------------
(* C24 *)

\* C24: in every state what visualizeBuckets() and getLoadFactorInfo() return
\* agrees with the table: totalBuckets is bucketCount and the number of
\* per-bucket records, totalItems is the number of stored keys and the sum
\* of the itemCounts, hashDistribution gives for every bucket index
\* 0 .. bucketCount - 1 the number of entries of that bucket, and
\* currentLoadFactor is totalItems / totalBuckets.
C24_ViewsAgreeWithTable ==
  LET v == visualizeBuckets(store)
      l == getLoadFactorInfo(store)
      indices == 0 .. store.bucketCount - 1
  IN  /\ v.totalBuckets = store.bucketCount
      /\ l.totalBuckets = store.bucketCount
      /\ DOMAIN v.buckets = indices
      /\ \A b \in indices :
           /\ v.buckets[b].bucketIndex = b
           /\ v.buckets[b].itemCount = Len(buckets[b])
      /\ v.totalItems = Cardinality(Stored(store))
      /\ l.totalItems = Cardinality(Stored(store))
      /\ v.totalItems = SumItems(v.buckets, 0, store.bucketCount - 1)
      /\ DOMAIN v.hashDistribution = indices
      /\ \A b \in indices : v.hashDistribution[b] = Len(buckets[b])
      /\ l.currentLoadFactor = <<l.totalItems, l.totalBuckets>>
      /\ last.op = "visualizeBuckets" => last.ret = v
      /\ last.op = "getLoadFactorInfo" => last.ret = l

\* visualizeBuckets() has just returned on a table that has grown to 32
\* buckets, one of them with more than one entry.
C24_Witness ==
  /\ last.op = "visualizeBuckets"
  /\ store.bucketCount = 2 * InitialBucketCount
  /\ last.ret.totalItems > 12
  /\ \E b \in DOMAIN buckets : last.ret.hashDistribution[b] > 1

----------------------------------------------------------------------------
(* C25 *)

\* The code units of str.
Chars(str) == {str[i] : i \in 1 .. Len(str)}

\* C25: for every string s of colons, backslashes, letters n and newlines,
\* unescapeString(escapeString(s)) is s, and escapeString(s) has no newline
\* character in it.
C25_UnescapeUndoesEscape ==
  /\ last.op = "escapeString" => Newline \notin Chars(last.ret)
  /\ last.op = "unescapeString" => last.ret = last.value

\* A string with each of the four characters has been escaped and
\* unescaped.
C25_Witness ==
  /\ last.op = "unescapeString"
  /\ Chars(last.value) = EscapedAlphabet
  /\ Len(last.key) > Len(last.value)

----------------------------------------------------------------------------
(* C26 *)

\* C26: in every state of a store, one just constructed from a file of any
\* number of entries included, entries / bucketCount is at most 0.75.
C26_LoadFactorAtMostThreshold ==
  Count(store) * ThresholdDen <= ThresholdNum * store.bucketCount

----------------------------------------------------------------------------
(* C27 *)

\* The three capacities of S are n: its bucketCount, the bucketCount of its
\* HashFunction, and the bucketCount and number of buckets of its
\* BucketManager.
CapacitiesAre(S, n) ==
  /\ S.bucketCount = n
  /\ S.hashFunction.bucketCount = n
  /\ S.bucketManager.bucketCount = n
  /\ DOMAIN S.bucketManager.buckets = 0 .. n - 1

\* C27: in every state the store's bucketCount, the bucketCount of its
\* HashFunction and the number of buckets of its BucketManager are equal,
\* and a step that changes one of them is a resize that doubles all three.
C27_CapacitiesAgree ==
  /\ [](CapacitiesAre(store, store.bucketCount))
  /\ [][\/ CapacitiesAre(store', store.bucketCount)
        \/ Called("construct")
        \/ /\ Called("set") /\ last'.resized
           /\ CapacitiesAre(store', 2 * store.bucketCount)
       ]_vars

\* A set has just resized the table a second time, to 64 buckets.
C27_Witness ==
  /\ last.op = "set" /\ last.resized
  /\ store.bucketCount = 4 * InitialBucketCount
  /\ Count(store) > 0

----------------------------------------------------------------------------
(* C28 *)

\* The positions of key in bucket.
PositionsOf(bucket, key) == {i \in 1 .. Len(bucket) : bucket[i].key = key}

\* Every bucket but bucket b is the same before and after the step.
OtherBucketsKept(b) ==
  /\ DOMAIN buckets' = DOMAIN buckets
  /\ \A c \in DOMAIN buckets \ {b} : buckets'[c] = buckets[c]

\* C28: a delete that finds its key removes one entry from the key's bucket:
\* the bucket is one shorter, its other entries are those it had, in the
\* order they had, and every other bucket is as it was.
C28_DeleteRemovesOneInOrder ==
  [][Called("delete") /\ last'.ret = "true" =>
       LET b == hash(store.hashFunction, last'.key)
           old == buckets[b]
       IN  /\ Len(buckets'[b]) = Len(old) - 1
           /\ \E i \in PositionsOf(old, last'.key) :
                buckets'[b] =
                  SubSeq(old, 1, i - 1) \o SubSeq(old, i + 1, Len(old))
           /\ OtherBucketsKept(b)
    ]_vars

\* A key has just been deleted from a bucket that keeps two entries, while
\* another bucket holds an entry.
C28_Witness ==
  /\ last.op = "delete" /\ last.ret = "true"
  /\ Len(buckets[hash(store.hashFunction, last.key)]) = 2
  /\ \E c \in DOMAIN buckets :
       c # hash(store.hashFunction, last.key) /\ Len(buckets[c]) > 0

----------------------------------------------------------------------------
(* C29 *)

\* C29: setInBucket on a bucket that holds the key overwrites the value where
\* the key is, so the bucket keeps its length and the order of its entries;
\* on a bucket without the key it appends the entry as the last one; no
\* other bucket changes.  (set without a resize and update that returns true
\* are the calls of setInBucket.)
C29_SetOverwritesInPlaceOrAppends ==
  [][\/ Called("set") /\ ~last'.resized
     \/ Called("update") /\ last'.ret = "true"
     =>
       LET key == last'.key
           value == last'.value
           b == hash(store.hashFunction, key)
           old == buckets[b]
       IN  /\ IF PositionsOf(old, key) # {}
              THEN /\ Len(buckets'[b]) = Len(old)
                   /\ \A i \in 1 .. Len(old) :
                        /\ buckets'[b][i].key = old[i].key
                        /\ buckets'[b][i].value =
                             IF old[i].key = key THEN value ELSE old[i].value
              ELSE buckets'[b] = Append(old, [key |-> key, value |-> value])
           /\ OtherBucketsKept(b)
    ]_vars

\* A set has just overwritten the value of the first of the three entries of
\* a bucket.
C29_Witness ==
  /\ last.op = "set" /\ last.existed
  /\ LET bucket == buckets[hash(store.hashFunction, last.key)]
     IN  /\ Len(bucket) = 3
         /\ bucket[1].key = last.key
         /\ bucket[1].value = last.value

----------------------------------------------------------------------------
(* C30 *)

\* C30: handlers run one whole handler after the other, and of the POST /keys
\* requests with one key, in whatever order and with whatever values they
\* come, the first handled answers 201 and stores its value, and each later
\* one answers 409 and leaves the stored value, the number of entries and
\* the file as they were.
C30_FirstCreateWins ==
  [][Called("create") /\ last'.ret # "400" =>
       LET key == last'.key
       IN  IF key \in DOMAIN ref
           THEN /\ last'.ret = "409"
                /\ get(store', key) = get(store, key)
                /\ Count(store') = Count(store)
                /\ file' = file
                /\ store' = store
           ELSE /\ last'.ret = "201"
                /\ get(store', key) = last'.value
                /\ Count(store') = Count(store) + 1
                /\ key \in DOMAIN ref'
    ]_vars

----------------------------------------------------------------------------
(* C31 *)

\* The keys of the entries load reads from f.
KeysOnFile(f) ==
  LET es == load(f, TRUE) IN {es[i].key : i \in 1 .. Len(es)}

\* C31: with two instances on one file, each mutation rewrites the whole
\* file from the table of the instance that made it: after a call that wrote,
\* the file is the save of the caller's table, whatever the other instance
\* holds, and a call that did not write leaves the file as it was; so the
\* file is always the table of the instance that wrote last, and an entry of
\* the other instance is on the file only if the writer holds that key.
C31_LastWriterOwnsFile ==
  [][/\ last'.wrote = "ok" /\ last'.op \in {"set", "update", "delete"} =>
          /\ file' = SaveContent(store'.bucketManager.buckets)
          /\ KeysOnFile(file') = Stored(store')
     /\ last'.wrote = "ok"
          /\ last'.op \in {"store2.set", "store2.update", "store2.delete"} =>
          /\ file' = SaveContent(store2'.bucketManager.buckets)
          /\ KeysOnFile(file') = Stored(store2')
     /\ last'.wrote = "none" => file' = file
    ]_vars

\* The second instance has just written, and a key the first instance set
\* and still holds is no longer on the file.
C31_Witness ==
  /\ last.op \in {"store2.set", "store2.update", "store2.delete"}
  /\ last.wrote = "ok"
  /\ \E key \in Stored(store) :
       /\ key \notin Stored(store2)
       /\ key \notin KeysOnFile(file)
       /\ get(store, key) = RefGet(ref, key)

----------------------------------------------------------------------------
(* C32 *)

\* C32: every route KeysRoutes registers gets the requests made to it:
\* GET /keys/loadfactor is handled by getLoadFactor,
\* GET /keys/visualize/buckets by visualizeBuckets,
\* GET /keys/visualize/key/:key by visualizeKey and GET /keys/user/:userId by
\* getUserData; GET /keys/:key, registered before them, takes none of them.
C32_RoutesReachOwnHandler ==
  last.op = "request" /\ last.value = "GET" =>
    LET path == last.key
        handler == last.ret.handler
    IN  /\ path = <<SegKeys, SegLoadfactor>> => handler = "getLoadFactor"
        /\ path = <<SegKeys, SegVisualize, SegBuckets>> =>
             handler = "visualizeBuckets"
        /\ Len(path) = 4 /\ SubSeq(path, 1, 3)
                              = <<SegKeys, SegVisualize, SegKey>> =>
             handler = "visualizeKey"
        /\ Len(path) = 3 /\ SubSeq(path, 1, 2) = <<SegKeys, SegUser>> =>
             handler = "getUserData"

====
